---------------------------- MODULE Spec2Model ----------------------------
(* State-machine model of Ecommerce.py: the Menu registry (clientes,      *)
(* produtos, pedidos), the Produto / Cliente objects it refers to, the    *)
(* order being assembled inside Menu.criar_pedido, and the position of    *)
(* the command-line loop Menu.exibir_menu.                                *)
(*                                                                        *)
(* Objects are modelled as entries of a heap (a sequence; the index is    *)
(* the object's identity), because order lines and orders hold            *)
(* references: re-registering a name creates a new object and leaves the  *)
(* old one reachable from the lines that refer to it.                     *)
(*                                                                        *)
(* One action is one pass of the program from one prompt (input()) to     *)
(* the next one.                                                          *)
EXTENDS Integers, Sequences, FiniteSets

VARIABLES
    pc,          \* where the CLI is: "menu", "pedido" (loop of criar_pedido), "saiu", "erro"
    clientes,    \* Menu.clientes : cpf -> identity of a Cliente
    produtos,    \* Menu.produtos : nome -> identity of a Produto
    pedidos,     \* Menu.pedidos  : list of Pedido
    heapC,       \* the Cliente objects created so far
    heapP,       \* the Produto objects created so far
    cadastrado,  \* history: the estoque each Produto object was constructed with
    pedido,      \* the local `pedido` of criar_pedido (None outside the loop)
    saida        \* the last message written to stdout (or the uncaught exception)

vars == <<pc, clientes, produtos, pedidos, heapC, heapP, cadastrado, pedido, saida>>

-----------------------------------------------------------------------------
(* Bounds of the model *)

MaxProdutos == 2     \* Produto objects created in one run
MaxClientes == 2     \* Cliente objects created in one run
MaxPedidos  == 2     \* Pedido objects created in one run
MaxItens    == 2     \* lines of one order

-----------------------------------------------------------------------------
(* Input alphabet.  Numeric prompts receive text, a sequence of           *)
(* characters; names and tax ids are used as typed.                       *)

NomesProduto == {"livro", "caneta"}
Sentinelas   == {"fim", "FIM"}
NomesPessoa  == {"ana"}
CPFs         == {"000", "111"}
Emails       == {"a@x"}
Opcoes       == {"0", "1", "2", "3", "4", "9"}

TxtPreco      == { <<"-", "1">>, <<"2">>, <<"1", ".", "5">>, <<"a", "b", "c">> }
TxtEstoque    == { <<"-", "1">>, <<"2">>, <<"1", ".", "5">>, <<"a", "b", "c">> }
TxtQuantidade == { <<"-", "1">>, <<"0">>, <<"1">>, <<"2">>, <<"3">>, <<"a", "b", "c">> }

None == [none |-> TRUE]

-----------------------------------------------------------------------------
(* Text to number conversions: int(input()) and Decimal(input()),         *)
(* restricted to signs, decimal digits and one decimal point.             *)

DigitChars == {"0", "1", "2", "3", "4", "5", "6", "7", "8", "9"}

DigitVal(c) ==
    CASE c = "0" -> 0 [] c = "1" -> 1 [] c = "2" -> 2 [] c = "3" -> 3
      [] c = "4" -> 4 [] c = "5" -> 5 [] c = "6" -> 6 [] c = "7" -> 7
      [] c = "8" -> 8 [] c = "9" -> 9

RECURSIVE DigitsValue(_)
DigitsValue(s) ==
    IF s = <<>> THEN 0
    ELSE DigitsValue(SubSeq(s, 1, Len(s) - 1)) * 10 + DigitVal(s[Len(s)])

AllDigits(s) == \A i \in 1..Len(s) : s[i] \in DigitChars

HasSign(t) == Len(t) > 0 /\ t[1] \in {"-", "+"}
Unsigned(t) == IF HasSign(t) THEN Tail(t) ELSE t
SignOf(t) == IF Len(t) > 0 /\ t[1] = "-" THEN -1 ELSE 1

\* int(text): [ok |-> TRUE, val |-> n], or ok = FALSE where int raises ValueError
int(t) ==
    LET body == Unsigned(t)
    IN  IF Len(body) > 0 /\ AllDigits(body)
        THEN [ok |-> TRUE, val |-> SignOf(t) * DigitsValue(body)]
        ELSE [ok |-> FALSE, val |-> 0]

\* A decimal.Decimal is coef * 10^exp; exp records the digits after the point
Dec(c, e) == [coef |-> c, exp |-> e]

\* Decimal(text): ok = FALSE where Decimal raises decimal.InvalidOperation
Decimal(t) ==
    LET body == Unsigned(t)
        dots == {i \in 1..Len(body) : body[i] = "."}
        digs == IF dots = {} THEN body
                ELSE LET d == CHOOSE i \in dots : TRUE
                     IN  SubSeq(body, 1, d - 1) \o SubSeq(body, d + 1, Len(body))
        frac == IF dots = {} THEN 0
                ELSE Len(body) - (CHOOSE i \in dots : TRUE)
    IN  IF Cardinality(dots) <= 1 /\ Len(digs) > 0 /\ AllDigits(digs)
        THEN [ok |-> TRUE, val |-> Dec(SignOf(t) * DigitsValue(digs), -frac)]
        ELSE [ok |-> FALSE, val |-> Dec(0, 0)]

\* The two conversions on the input alphabet, computed once
intDe == [t \in TxtEstoque \cup TxtQuantidade |-> int(t)]
DecimalDe == [t \in TxtPreco |-> Decimal(t)]

\* Decimal(n) for an int n
DecimalOfInt(n) == Dec(n, 0)

RECURSIVE Pow10(_)
Pow10(n) == IF n <= 0 THEN 1 ELSE 10 * Pow10(n - 1)

Min(a, b) == IF a <= b THEN a ELSE b

\* Decimal.__mul__ and Decimal.__add__ (results stay far below the context precision)
DecMul(a, b) == Dec(a.coef * b.coef, a.exp + b.exp)
DecAdd(a, b) ==
    LET e == Min(a.exp, b.exp)
    IN  Dec(a.coef * Pow10(a.exp - e) + b.coef * Pow10(b.exp - e), e)

\* Decimal.__lt__ against the int 0
DecNegative(a) == a.coef < 0

-----------------------------------------------------------------------------
(* The classes *)

\* mutant: `and` in place of `or`
ProdutoInvalido_and(preco, estoque) == DecNegative(preco) /\ estoque < 0

\* Produto.__init__ raises ValueError
ProdutoInvalido(preco, estoque) == DecNegative(preco) \/ estoque < 0

\* Produto.__init__ : the attributes of the new object
Produto(nome, preco, estoque) == [nome |-> nome, preco |-> preco, estoque |-> estoque]

\* Pessoa.__init__
Pessoa(nome, cpf, email) == [nome |-> nome, cpf |-> cpf, email |-> email]

\* Cliente.__init__ : id_cliente is a fresh uuid, here the ordinal of the object
Cliente(pessoa, uid) == [pessoa |-> pessoa, id_cliente |-> uid]

\* mutant: `>=` in place of `>`
EstoqueInsuficiente_ge(quantidade, estoque) == quantidade >= estoque

\* The stock test of criar_pedido
EstoqueInsuficiente(quantidade, estoque) == quantidade > estoque

\* mutant: `<` in place of `<=`
ItemInvalido_lt(quantidade) == quantidade < 0

\* ItemPedido.__init__ raises ValueError
ItemInvalido(quantidade) == quantidade <= 0

\* ItemPedido.__init__ : produto is a reference into heapP
ItemPedido(produto, quantidade) == [produto |-> produto, quantidade |-> quantidade]

\* ItemPedido.calcular_total, reading the referenced Produto from heap h
ItemTotal(h, item) == DecMul(h[item.produto].preco, DecimalOfInt(item.quantidade))

\* Pedido.__init__ : cliente is a reference into heapC
Pedido(cliente) == [cliente |-> cliente, itens |-> <<>>]

\* Pedido.calcular_total : sum(...) folds from the int 0, left to right
RECURSIVE SumTotals(_, _, _)
SumTotals(h, itens, acc) ==
    IF itens = <<>> THEN acc
    ELSE SumTotals(h, Tail(itens), DecAdd(acc, ItemTotal(h, Head(itens))))

\* mutant: the sum skips the first line
calcular_total_sem_primeiro(h, p) ==
    SumTotals(h, IF p.itens = <<>> THEN <<>> ELSE Tail(p.itens), DecimalOfInt(0))

calcular_total(h, p) == SumTotals(h, p.itens, DecimalOfInt(0))

\* dict.get / dict.__setitem__
Get(d, k) == IF k \in DOMAIN d THEN d[k] ELSE 0
Put(d, k, v) == [x \in (DOMAIN d) \cup {k} |-> IF x = k THEN v ELSE d[x]]
EmptyDict == [x \in {} |-> 0]

\* str.lower on the product names of the input alphabet
lower(s) == IF s = "FIM" THEN "fim" ELSE s

-----------------------------------------------------------------------------
(* Initial state: Menu.__init__, then exibir_menu waits at its prompt *)

Init ==
    /\ pc = "menu"
    /\ clientes = EmptyDict
    /\ produtos = EmptyDict
    /\ pedidos = <<>>
    /\ heapC = <<>>
    /\ heapP = <<>>
    /\ cadastrado = <<>>
    /\ pedido = None
    /\ saida = [msg |-> "--- Menu E-commerce ---", dados |-> <<>>]

\* print: saida keeps the last message of a pass, written here without
\* diacritics, and the values formatted into it.  The catalogue that
\* criar_pedido prints before each product prompt (lines 175-177) only reads
\* produtos and is left out.
Stdout(m, d) == saida' = [msg |-> m, dados |-> d]

\* An exception nobody catches leaves exibir_menu: the process ends with a traceback
Raise(exc, texto) ==
    /\ pc' = "erro"
    /\ Stdout(exc, <<texto>>)
    /\ UNCHANGED <<clientes, produtos, pedidos, heapC, heapP, cadastrado, pedido>>

-----------------------------------------------------------------------------
(* Menu *)

cadastrar_cliente(nome, cpf, email) ==
    LET uid == Len(heapC) + 1
        cliente == Cliente(Pessoa(nome, cpf, email), uid)
    IN  /\ Len(heapC) < MaxClientes
        /\ heapC' = Append(heapC, cliente)
        /\ clientes' = Put(clientes, cpf, uid)
        /\ Stdout("Cliente cadastrado", <<cliente>>)
        /\ UNCHANGED <<pc, produtos, pedidos, heapP, cadastrado, pedido>>

\* mutant: a name already registered has its Produto object updated in place
cadastrar_produto_sobrescreve(nome, preco, estoque) ==
    IF ProdutoInvalido(preco, estoque)
    THEN Raise("ValueError", "Preco e estoque devem ser nao-negativos.")
    ELSE LET produto == Produto(nome, preco, estoque)
             antigo == Get(produtos, nome)
         IN  /\ Len(heapP) < MaxProdutos
             /\ IF antigo # 0
                THEN /\ heapP' = [heapP EXCEPT ![antigo] = produto]
                     /\ cadastrado' = [cadastrado EXCEPT ![antigo] = estoque]
                     /\ produtos' = produtos
                ELSE /\ heapP' = Append(heapP, produto)
                     /\ cadastrado' = Append(cadastrado, estoque)
                     /\ produtos' = Put(produtos, nome, Len(heapP) + 1)
             /\ Stdout("Produto cadastrado", <<produto>>)
             /\ UNCHANGED <<pc, clientes, pedidos, heapC, pedido>>

\* mutant: the product is stored before it is validated
cadastrar_produto_grava_antes(nome, preco, estoque) ==
    LET produto == Produto(nome, preco, estoque)
    IN  /\ Len(heapP) < MaxProdutos
        /\ heapP' = Append(heapP, produto)
        /\ cadastrado' = Append(cadastrado, estoque)
        /\ produtos' = Put(produtos, nome, Len(heapP) + 1)
        /\ IF ProdutoInvalido(preco, estoque)
           THEN /\ pc' = "erro"
                /\ Stdout("ValueError", <<"Preco e estoque devem ser nao-negativos.">>)
           ELSE /\ pc' = pc
                /\ Stdout("Produto cadastrado", <<produto>>)
        /\ UNCHANGED <<clientes, pedidos, heapC, pedido>>

cadastrar_produto(nome, preco, estoque) ==
    IF ProdutoInvalido(preco, estoque)
    THEN Raise("ValueError", "Preco e estoque devem ser nao-negativos.")
    ELSE LET produto == Produto(nome, preco, estoque)
         IN  /\ Len(heapP) < MaxProdutos
             /\ heapP' = Append(heapP, produto)
             /\ cadastrado' = Append(cadastrado, estoque)
             /\ produtos' = Put(produtos, nome, Len(heapP) + 1)
             /\ Stdout("Produto cadastrado", <<produto>>)
             /\ UNCHANGED <<pc, clientes, pedidos, heapC, pedido>>

\* mutant: no `return` after "Cliente nao encontrado."
criar_pedido_sem_return(cpf) ==
    /\ Len(pedidos) < MaxPedidos
    /\ pedido' = Pedido(Get(clientes, cpf))
    /\ pc' = "pedido"
    /\ Stdout("Produtos disponiveis:", <<>>)
    /\ UNCHANGED <<clientes, produtos, pedidos, heapC, heapP, cadastrado>>

\* criar_pedido up to its first prompt
criar_pedido(cpf) ==
    LET cliente == Get(clientes, cpf)
    IN  IF cliente = 0
        THEN /\ Stdout("Cliente nao encontrado.", <<>>)
             /\ UNCHANGED <<pc, clientes, produtos, pedidos, heapC, heapP,
                            cadastrado, pedido>>
        ELSE /\ Len(pedidos) < MaxPedidos
             /\ pedido' = Pedido(cliente)
             /\ pc' = "pedido"
             /\ Stdout("Produtos disponiveis:", <<>>)
             /\ UNCHANGED <<clientes, produtos, pedidos, heapC, heapP, cadastrado>>

\* mutant: the line is added and the stock is not debited
adicionar_item_sem_debito(produto, quantidade) ==
    /\ Len(pedido.itens) < MaxItens
    /\ pedido' = [pedido EXCEPT !.itens = Append(@, ItemPedido(produto, quantidade))]
    /\ Stdout("Produtos disponiveis:", <<>>)
    /\ UNCHANGED <<pc, clientes, produtos, pedidos, heapC, heapP, cadastrado>>

\* Pedido.adicionar_item followed by `produto.estoque -= quantidade`
adicionar_item(produto, quantidade) ==
    /\ Len(pedido.itens) < MaxItens
    /\ pedido' = [pedido EXCEPT !.itens = Append(@, ItemPedido(produto, quantidade))]
    /\ heapP' = [heapP EXCEPT ![produto].estoque = @ - quantidade]
    /\ Stdout("Produtos disponiveis:", <<>>)
    /\ UNCHANGED <<pc, clientes, produtos, pedidos, heapC, cadastrado>>

\* A pass of the loop of criar_pedido that ends in `continue` with a message
Recusar(m) ==
    /\ Stdout(m, <<>>)
    /\ UNCHANGED <<pc, clientes, produtos, pedidos, heapC, heapP, cadastrado, pedido>>

\* mutant: the finalized order is inserted at the front of the list
Finalizar_frente(nome_produto) ==
    /\ pc = "pedido"
    /\ lower(nome_produto) = "fim"
    /\ pedidos' = <<pedido>> \o pedidos
    /\ pedido' = None
    /\ pc' = "menu"
    /\ Stdout("Total do pedido", <<calcular_total(heapP, pedido)>>)
    /\ UNCHANGED <<clientes, produtos, heapC, heapP, cadastrado>>

\* The loop of criar_pedido, sentinel typed: leave the loop, total, append
Finalizar(nome_produto) ==
    /\ pc = "pedido"
    /\ lower(nome_produto) = "fim"
    /\ pedidos' = Append(pedidos, pedido)
    /\ pedido' = None
    /\ pc' = "menu"
    /\ Stdout("Total do pedido", <<calcular_total(heapP, pedido)>>)
    /\ UNCHANGED <<clientes, produtos, heapC, heapP, cadastrado>>

\* The loop of criar_pedido, a name that is no key of produtos
ProdutoNaoEncontrado(nome_produto) ==
    /\ pc = "pedido"
    /\ lower(nome_produto) # "fim"
    /\ Get(produtos, nome_produto) = 0
    /\ Recusar("Produto nao encontrado.")

\* The loop of criar_pedido, a known product and the text typed as quantity
LerQuantidade(nome_produto, txt) ==
    LET produto == Get(produtos, nome_produto)
        quantidade == intDe[txt]
    IN  /\ pc = "pedido"
        /\ lower(nome_produto) # "fim"
        /\ produto # 0
        /\ IF ~quantidade.ok THEN Recusar("Quantidade invalida.")
           ELSE IF EstoqueInsuficiente(quantidade.val, heapP[produto].estoque)
                THEN Recusar("Estoque insuficiente.")
           ELSE IF ItemInvalido(quantidade.val) THEN Recusar("Quantidade invalida.")
           ELSE adicionar_item(produto, quantidade.val)

\* What listar_pedidos prints: one entry per order, in list order
Listagem ==
    [idx \in 1..Len(pedidos) |->
        [cliente |-> heapC[pedidos[idx].cliente].pessoa.nome,
         itens   |-> [j \in 1..Len(pedidos[idx].itens) |->
                        LET item == pedidos[idx].itens[j]
                        IN  <<heapP[item.produto].nome, item.quantidade,
                              ItemTotal(heapP, item)>>],
         total   |-> calcular_total(heapP, pedidos[idx])]]

listar_pedidos ==
    /\ Stdout("Pedidos", Listagem)
    /\ UNCHANGED <<pc, clientes, produtos, pedidos, heapC, heapP, cadastrado, pedido>>

-----------------------------------------------------------------------------
(* exibir_menu: one pass of the menu loop per option typed *)

Opcao1(nome, cpf, email) ==
    /\ pc = "menu"
    /\ cadastrar_cliente(nome, cpf, email)

Opcao2(nome, txtPreco, txtEstoque) ==
    LET preco == DecimalDe[txtPreco]
        estoque == intDe[txtEstoque]
    IN  /\ pc = "menu"
        /\ IF ~preco.ok THEN Raise("decimal.InvalidOperation", "ConversionSyntax")
           ELSE IF ~estoque.ok THEN Raise("ValueError", "invalid literal for int()")
           ELSE cadastrar_produto(nome, preco.val, estoque.val)

Opcao3(cpf) ==
    /\ pc = "menu"
    /\ criar_pedido(cpf)

Opcao4 ==
    /\ pc = "menu"
    /\ listar_pedidos

Opcao0 ==
    /\ pc = "menu"
    /\ pc' = "saiu"
    /\ Stdout("Saindo...", <<>>)
    /\ UNCHANGED <<clientes, produtos, pedidos, heapC, heapP, cadastrado, pedido>>

OpcaoInvalida(opcao) ==
    /\ pc = "menu"
    /\ opcao \notin {"0", "1", "2", "3", "4"}
    /\ Stdout("Opcao invalida.", <<>>)
    /\ UNCHANGED <<pc, clientes, produtos, pedidos, heapC, heapP, cadastrado, pedido>>

Next ==
    \/ \E nome \in NomesPessoa, cpf \in CPFs, email \in Emails : Opcao1(nome, cpf, email)
    \/ \E nome \in NomesProduto, tp \in TxtPreco, te \in TxtEstoque : Opcao2(nome, tp, te)
    \/ \E cpf \in CPFs : Opcao3(cpf)
    \/ Opcao4
    \/ Opcao0
    \/ \E opcao \in Opcoes : OpcaoInvalida(opcao)
    \/ \E nome \in NomesProduto \cup Sentinelas : Finalizar(nome)
    \/ \E nome \in NomesProduto \cup Sentinelas : ProdutoNaoEncontrado(nome)
    \/ \E nome \in NomesProduto \cup Sentinelas, txt \in TxtQuantidade :
            LerQuantidade(nome, txt)

Spec == Init /\ [][Next]_vars

-----------------------------------------------------------------------------
(* Vocabulary of the properties *)

Aberto == pedido # None

\* Every order of the program: the finalized ones, then the one being assembled
Todos == IF Aberto THEN Append(pedidos, pedido) ELSE pedidos

\* The Produto objects the registry holds or an order line refers to
Referidos ==
    {produtos[n] : n \in DOMAIN produtos}
        \cup UNION { {Todos[i].itens[j].produto : j \in 1..Len(Todos[i].itens)} :
                        i \in 1..Len(Todos) }

RECURSIVE Vendido(_, _)
\* Units of Produto object i in a sequence of lines
Vendido(itens, i) ==
    IF itens = <<>> THEN 0
    ELSE (IF Head(itens).produto = i THEN Head(itens).quantidade ELSE 0)
            + Vendido(Tail(itens), i)

RECURSIVE VendidoEm(_, _)
VendidoEm(os, i) ==
    IF os = <<>> THEN 0 ELSE Vendido(Head(os).itens, i) + VendidoEm(Tail(os), i)

\* The value of a Decimal in hundredths
Valor(d) == d.coef * Pow10(d.exp + 2)

RECURSIVE Soma(_, _)
\* price * quantity summed over a set of positions of a line sequence
Soma(itens, S) ==
    IF S = {} THEN 0
    ELSE LET j == CHOOSE x \in S : TRUE
         IN  Valor(heapP[itens[j].produto].preco) * itens[j].quantidade
                + Soma(itens, S \ {j})

Inverso(q) == [j \in 1..Len(q) |-> q[Len(q) + 1 - j]]

-----------------------------------------------------------------------------
(* C1: in every reachable state, every product the registry holds or an    *)
(* order line refers to has estoque >= 0 and preco >= 0.                   *)
C1_NonNegative ==
    \A i \in Referidos : heapP[i].estoque >= 0 /\ heapP[i].preco.coef >= 0

\* a product sold out by an order line, right after a further request was refused
C1_Witness ==
    /\ saida.msg = "Estoque insuficiente."
    /\ \E j \in 1..Len(pedido.itens) :
            /\ heapP[pedido.itens[j].produto].estoque = 0
            /\ cadastrado[pedido.itens[j].produto] > 0

C10_Conservation ==
    \A i \in 1..Len(heapP) :
        /\ cadastrado[i] = heapP[i].estoque + VendidoEm(Todos, i)
        /\ VendidoEm(Todos, i) <= cadastrado[i]

\* an object sold out by a finalized order and the open order together
C10_Witness ==
    \E i \in 1..Len(heapP) :
        /\ Aberto
        /\ Vendido(pedido.itens, i) > 0
        /\ VendidoEm(pedidos, i) > 0
        /\ heapP[i].estoque = 0

\* What can be typed at the product prompt of criar_pedido
Digitados == NomesProduto \cup Sentinelas

C3_FailedAddLine ==
    [][pc = "pedido" =>
        LET intacto == /\ pc' = "pedido"
                       /\ pedido' = pedido
                       /\ heapP' = heapP
                       /\ produtos' = produtos
                       /\ pedidos' = pedidos
        IN  /\ \A n \in Digitados :
                ProdutoNaoEncontrado(n)
                    => saida'.msg = "Produto nao encontrado." /\ intacto
            /\ \A n \in DOMAIN produtos, txt \in TxtQuantidade :
                LET q == intDe[txt]
                IN  LerQuantidade(n, txt) =>
                        /\ (q.ok /\ q.val > heapP[produtos[n]].estoque)
                            => saida'.msg = "Estoque insuficiente." /\ intacto
                        /\ (~q.ok \/ q.val <= 0)
                            => saida'.msg = "Quantidade invalida." /\ intacto
      ]_vars

\* a quantity was refused on an order that already has a line
C3_Witness ==
    /\ pc = "pedido"
    /\ saida.msg = "Quantidade invalida."
    /\ Len(pedido.itens) > 0

(* C4: a validation error at menu choice 2 is reported and the menu loop   *)
(* goes on: the process never ends on an exception.                        *)
C4_Recoverable == pc # "erro"

(* C5: the order list is append-only and holds the finalized orders in the *)
(* order of their finalization: it changes only when the open order is     *)
(* finalized, by appending that order at the end; listar_pedidos prints it *)
(* in list order.                                                          *)
C5_AppendOnly ==
    /\ [](saida.msg = "Pedidos" =>
            /\ Len(saida.dados) = Len(pedidos)
            /\ \A i \in 1..Len(pedidos) :
                LET o == pedidos[i]
                    l == saida.dados[i]
                IN  /\ l.cliente = heapC[o.cliente].pessoa.nome
                    /\ Len(l.itens) = Len(o.itens)
                    /\ \A j \in 1..Len(o.itens) :
                        /\ l.itens[j][1] = heapP[o.itens[j].produto].nome
                        /\ l.itens[j][2] = o.itens[j].quantidade
                        /\ Valor(l.itens[j][3]) = Soma(o.itens, {j})
                    /\ Valor(l.total) = Soma(o.itens, 1..Len(o.itens)))
    /\ [][/\ Len(pedidos') >= Len(pedidos)
          /\ SubSeq(pedidos', 1, Len(pedidos)) = pedidos
          /\ pedidos' # pedidos =>
                /\ pc = "pedido" /\ pc' = "menu"
                /\ pedidos' = Append(pedidos, pedido)
                /\ pedido' = None
          /\ (pc = "menu" /\ pc' = "menu") => pedidos' = pedidos
          /\ (pc = "pedido" /\ pc' = "pedido") => pedidos' = pedidos
         ]_vars

\* two different finalized orders, just listed
C5_Witness ==
    /\ saida.msg = "Pedidos"
    /\ Len(pedidos) = 2
    /\ Len(pedidos[1].itens) > Len(pedidos[2].itens)

(* C6: a finalized order never changes: its customer, its lines (product   *)
(* and quantity), each line's subtotal and its total stay as they are      *)
(* under every later operation.                                            *)
C6_ReadOnly ==
    [][\A i \in 1..Len(pedidos) :
        /\ Len(pedidos') >= i
        /\ pedidos'[i] = pedidos[i]
        /\ heapC'[pedidos[i].cliente] = heapC[pedidos[i].cliente]
        /\ \A j \in 1..Len(pedidos[i].itens) :
            LET item == pedidos[i].itens[j]
            IN  /\ heapP'[item.produto].nome = heapP[item.produto].nome
                /\ heapP'[item.produto].preco = heapP[item.produto].preco
                /\ ItemTotal(heapP', item) = ItemTotal(heapP, item)
        /\ calcular_total(heapP', pedidos'[i]) = calcular_total(heapP, pedidos[i])
      ]_vars

\* a finalized order whose product and customer were both registered again
\* since, and whose product a later order bought too
C6_Witness ==
    \E i \in 1..Len(pedidos) :
        /\ Len(pedidos[i].itens) > 0
        /\ LET k == pedidos[i].itens[1].produto
               c == pedidos[i].cliente
           IN  /\ produtos[heapP[k].nome] # k
               /\ clientes[heapC[c].pessoa.cpf] # c
               /\ \E m \in 1..Len(pedidos) : m > i /\ Vendido(pedidos[m].itens, k) > 0

(* C7: criar_pedido with a tax id that is no key of clientes reports       *)
(* "Cliente nao encontrado." and changes nothing; with a registered tax id *)
(* it opens an order without lines for the customer stored under it.      *)
C7_StartOrder ==
    [][pc = "menu" => \A cpf \in CPFs :
        Opcao3(cpf) =>
            IF cpf \notin DOMAIN clientes
            THEN /\ saida'.msg = "Cliente nao encontrado."
                 /\ pc' = "menu"
                 /\ pedido' = None
                 /\ UNCHANGED <<pedidos, clientes, produtos, heapC, heapP>>
            ELSE /\ pc' = "pedido"
                 /\ pedido' = [cliente |-> clientes[cpf], itens |-> <<>>]
                 /\ UNCHANGED <<pedidos, clientes, produtos, heapC, heapP>>
      ]_vars

\* an unknown tax id was refused while customers, products and orders exist
C7_Witness ==
    /\ saida.msg = "Cliente nao encontrado."
    /\ DOMAIN clientes # {}
    /\ DOMAIN produtos # {}
    /\ Len(pedidos) > 0

\* The numeric (price, stock) texts of which one is negative
Negativos ==
    {t \in TxtPreco \X TxtEstoque :
        /\ DecimalDe[t[1]].ok /\ intDe[t[2]].ok
        /\ (DecimalDe[t[1]].val.coef < 0 \/ intDe[t[2]].val < 0)}

(* C9: cadastrar_produto with a negative price or a negative stock raises  *)
(* ValueError and leaves the product mapping and every product as they     *)
(* were.                                                                   *)
C9_RejectedProduct ==
    [][pc = "menu" =>
        \A n \in NomesProduto, t \in Negativos :
            Opcao2(n, t[1], t[2])
            => /\ produtos' = produtos
               /\ heapP' = heapP
               /\ saida'.msg = "ValueError"
               /\ saida'.dados = <<"Preco e estoque devem ser nao-negativos.">>
      ]_vars

\* the rejection happened while a product was registered
C9_Witness ==
    /\ saida.msg = "ValueError"
    /\ saida.dados = <<"Preco e estoque devem ser nao-negativos.">>
    /\ DOMAIN produtos # {}

=============================================================================
